---------------------------- MODULE Spec2Model ----------------------------
(***************************************************************************)
(* Model of src/main.py, the YouTube liked-videos cleaner.                 *)
(*                                                                         *)
(* One run of main() is a sequential pipeline:                             *)
(*   channels().list -> playlistItems().list pages -> videos().list        *)
(*   batches -> filter -> start-index slice -> playlistItems().delete      *)
(* The liked collection on the platform (remote) outlives a run; a second  *)
(* run can be started with the command line the first run prints.          *)
(*                                                                         *)
(* Every remote call is two steps: the request is issued, then the         *)
(* platform answers with success, a quota error or another error.          *)
(* Titles are used by the program for printing only and are left out.      *)
(***************************************************************************)
EXTENDS Integers, Sequences, FiniteSets

(***************************************************************************)
(* Bounds of the model.                                                    *)
(***************************************************************************)
\* Largest liked collection considered.
MaxVideos == 3
\* Page size of playlistItems().list and batch size of videos().list.  The
\* program uses 50 for both (main.py lines 77 and 111-112); the model scales
\* it down so that collections of MaxVideos entries span several pages.
MaxResults == 2
\* Largest --batch-size a user passes in the model, besides the default.
MaxBatchSize == 1
\* Largest --start-index a user passes in the model.
MaxStartIndex == 2
\* The request counter of the fetch loop saturates here.
MaxFetchRequests == 3

(***************************************************************************)
(* Program constants.                                                      *)
(***************************************************************************)
\* argparse default of --batch-size.
DefaultBatchSize == 50
\* next_page_token = None: no continuation token.
NoToken == 0
\* "no resumption command was printed"
NoHint == -1

VARIABLES
    remote,            \* the liked collection on the platform: Seq of entries
    catalog,           \* the platform's video details: video id -> ISO-8601 duration
    args,              \* parsed command line of the current run
    resumed,           \* TRUE in a run started from a printed resumption command
    prev,              \* what the previous run selected and removed (history)
    pc,                \* position of the current run
    liked_videos,      \* get_liked_videos: liked_videos
    next_page_token,   \* get_liked_videos: next_page_token
    fetch_requests,    \* number of playlistItems().list requests issued (history)
    video_durations,   \* get_video_durations: video_durations
    i,                 \* get_video_durations: loop variable i (0-based offset)
    lookup_requests,   \* the id batches sent to videos().list (history)
    lookup_responses,  \* the id -> minutes mappings videos().list answered (history)
    selected,          \* main: videos_to_unlike as computed by the filter (line 209)
    videos_to_unlike,  \* main: videos_to_unlike after the start-index slice
    pos,               \* unlike_videos: entries of the for loop already taken
    unliked_count,     \* unlike_videos: unliked_count
    delete_calls,      \* ids passed to playlistItems().delete (history)
    errors,            \* <<stage, kind>> of the failed calls of this run (history)
    next_index         \* main: next_index printed at line 237, or NoHint

vars == <<remote, catalog, args, resumed, prev, pc, liked_videos,
          next_page_token, fetch_requests, video_durations, i,
          lookup_requests, lookup_responses, selected, videos_to_unlike,
          pos, unliked_count, delete_calls, errors, next_index>>

(***************************************************************************)
(* Helpers.                                                                *)
(***************************************************************************)
Min(a, b) == IF a < b THEN a ELSE b

Range(s) == {s[n] : n \in 1..Len(s)}

\* Python s[a:b] for 0 <= a, 0 <= b.
PySlice(s, a, b) == SubSeq(s, Min(a, Len(s)) + 1, Min(b, Len(s)))

\* Python s[a:] for 0 <= a.
PySliceFrom(s, a) == PySlice(s, a, Len(s))

\* Python s[:b] for 0 <= b.
PySliceTo(s, b) == PySlice(s, 0, b)

(***************************************************************************)
(* Durations.  An ISO-8601 duration string PT<h>H<m>M<s>S is the record    *)
(* [h, m, s]; minutes are rationals [num, den].                            *)
(***************************************************************************)
PT4M59S == [h |-> 0, m |-> 4, s |-> 59]
PT1H2M3S == [h |-> 1, m |-> 2, s |-> 3]

\* The durations the platform reports: 4.98 minutes and 62.05 minutes.
DurationStrings == {PT4M59S, PT1H2M3S}

\* --min-duration values: 5 (the default) and 62.05.  Against them the two
\* durations are below and above (5), and below and equal (62.05).
Thresholds == {[num |-> 5, den |-> 1], [num |-> 1241, den |-> 20]}

\* isodate.parse_duration(duration_str).total_seconds()
ParseDurationSeconds(d) == d.h * 3600 + d.m * 60 + d.s

\* duration.total_seconds() / 60
DurationMinutes(d) == [num |-> ParseDurationSeconds(d), den |-> 60]

\* a < b on rationals with positive denominators
RatLess(a, b) == a.num * b.den < b.num * a.den

(***************************************************************************)
(* The platform.                                                           *)
(***************************************************************************)
\* The membership record id of the entry that likes video v: distinct from
\* every video id.
ItemIdOf(v) == 100 + v

Entry(v) == [id |-> v, playlist_item_id |-> ItemIdOf(v)]

\* playlistItems().list(maxResults, pageToken): the page starting at the
\* token's offset, and the token of the next page when records remain.
PageStart(token) == IF token = NoToken THEN 0 ELSE token

PageItems(token) == PySlice(remote, PageStart(token), PageStart(token) + MaxResults)

PageNextToken(token) ==
    IF PageStart(token) + MaxResults < Len(remote)
    THEN PageStart(token) + MaxResults
    ELSE NoToken

\* videos().list(id=batch): details of the ids the platform knows; the
\* others are left out of the response.
VideosResponse(batch) ==
    [v \in Range(batch) \cap DOMAIN catalog |-> DurationMinutes(catalog[v])]

\* playlistItems().delete(id): the collection without that membership record.
RemoteWithout(item) == SelectSeq(remote, LAMBDA e : e.playlist_item_id # item)


\* dict.update: g's bindings laid over f's.
Update(f, g) ==
    [x \in DOMAIN f \cup DOMAIN g |-> IF x \in DOMAIN g THEN g[x] ELSE f[x]]

(***************************************************************************)
(* Initial state: a liked collection of up to MaxVideos entries, any       *)
(* details for its videos, any command line, and main() about to call      *)
(* get_liked_videos.                                                       *)
(***************************************************************************)
Catalogs(n) == UNION {[S -> DurationStrings] : S \in SUBSET (1..n)}

ArgSets ==
    [min_duration : Thresholds, dry_run : BOOLEAN,
     batch_size : (1..MaxBatchSize) \cup {DefaultBatchSize},
     start_index : 0..MaxStartIndex]

NoPrev == [selected |-> <<>>, unliked_count |-> 0, start_index |-> 0,
           errors |-> {}, dry_run |-> FALSE]

\* The local variables of a run before it has done anything.
FreshRun ==
    /\ pc = "channels"
    /\ liked_videos = <<>>
    /\ next_page_token = NoToken
    /\ fetch_requests = 0
    /\ video_durations = <<>>
    /\ i = 0
    /\ lookup_requests = <<>>
    /\ lookup_responses = <<>>
    /\ selected = <<>>
    /\ videos_to_unlike = <<>>
    /\ pos = 0
    /\ unliked_count = 0
    /\ delete_calls = <<>>
    /\ errors = {}
    /\ next_index = NoHint

Init ==
    /\ \E n \in 0..MaxVideos :
        /\ remote = [v \in 1..n |-> Entry(v)]
        /\ catalog \in Catalogs(n)
    /\ args \in ArgSets
    /\ resumed = FALSE
    /\ prev = NoPrev
    /\ FreshRun

(***************************************************************************)
(* get_liked_videos                                                        *)
(***************************************************************************)
\* channels().list(mine=True) answers: the liked playlist id is known.
ChannelsOk ==
    /\ pc = "channels"
    /\ pc' = "fetch"
    /\ UNCHANGED <<remote, catalog, args, resumed, prev, liked_videos,
                   next_page_token, fetch_requests, video_durations, i,
                   lookup_requests, lookup_responses, selected,
                   videos_to_unlike, pos, unliked_count, delete_calls,
                   errors, next_index>>

\* channels().list raises: the call is outside every try, main() dies.
ChannelsError ==
    /\ pc = "channels"
    /\ pc' = "crashed"
    /\ UNCHANGED <<remote, catalog, args, resumed, prev, liked_videos,
                   next_page_token, fetch_requests, video_durations, i,
                   lookup_requests, lookup_responses, selected,
                   videos_to_unlike, pos, unliked_count, delete_calls,
                   errors, next_index>>

\* main() lines 185-194 once get_liked_videos has returned lv:
\* exit on an empty list, otherwise call get_video_durations.
AfterFetch(lv) == IF lv = <<>> THEN "done" ELSE "resolve"

\* The loop issues playlistItems().list with the current page token.
FetchRequest ==
    /\ pc = "fetch"
    /\ pc' = "fetch_wait"
    /\ fetch_requests' = Min(fetch_requests + 1, MaxFetchRequests)
    /\ UNCHANGED <<remote, catalog, args, resumed, prev, liked_videos,
                   next_page_token, video_durations, i, lookup_requests,
                   lookup_responses, selected, videos_to_unlike, pos,
                   unliked_count, delete_calls, errors, next_index>>

\* A fetch loop that keeps only the page just received.
OverwritePage(lv, items) == items

\* lines 82-88: liked_videos.append(...) for each item of the page.
AppendPage(lv, items) == lv \o items

\* The page arrives: append its records, follow nextPageToken or stop.
FetchOk ==
    /\ pc = "fetch_wait"
    /\ liked_videos' = AppendPage(liked_videos, PageItems(next_page_token))
    /\ next_page_token' = PageNextToken(next_page_token)
    /\ pc' = IF next_page_token' = NoToken
             THEN AfterFetch(liked_videos')
             ELSE "fetch"
    /\ UNCHANGED <<remote, catalog, args, resumed, prev, fetch_requests,
                   video_durations, i, lookup_requests, lookup_responses,
                   selected, videos_to_unlike, pos, unliked_count,
                   delete_calls, errors, next_index>>

\* A fetch loop that does not break on a quota error.
FetchQuotaErrorRetries(lv) == "fetch"

\* The request raises with "quota" in its text: break, return what we have.
FetchQuotaErrorNext(lv) == AfterFetch(lv)

FetchQuotaError ==
    /\ pc = "fetch_wait"
    /\ errors' = errors \cup {<<"fetch", "quota">>}
    /\ pc' = FetchQuotaErrorNext(liked_videos)
    /\ UNCHANGED <<remote, catalog, args, resumed, prev, liked_videos,
                   next_page_token, fetch_requests, video_durations, i,
                   lookup_requests, lookup_responses, selected,
                   videos_to_unlike, pos, unliked_count, delete_calls,
                   next_index>>

\* The request raises with any other text: the except block ends without a
\* break and the while loop runs again with the same page token.
FetchOtherError ==
    /\ pc = "fetch_wait"
    /\ errors' = errors \cup {<<"fetch", "other">>}
    /\ pc' = "fetch"
    /\ UNCHANGED <<remote, catalog, args, resumed, prev, liked_videos,
                   next_page_token, fetch_requests, video_durations, i,
                   lookup_requests, lookup_responses, selected,
                   videos_to_unlike, pos, unliked_count, delete_calls,
                   next_index>>

(***************************************************************************)
(* get_video_durations                                                     *)
(***************************************************************************)
\* main() line 194: [video['id'] for video in liked_videos]
VideoIds(lv) == [n \in 1..Len(lv) |-> lv[n].id]

\* A batch that runs one id into the next batch.
BatchOverlapping(ids, off) == PySlice(ids, off, off + MaxResults + 1)

\* video_ids[i:i+50]
Batch(ids, off) == PySlice(ids, off, off + MaxResults)

\* The for loop over range(0, len(video_ids), 50): the offset after off, and
\* where the run goes when the range is exhausted.
AfterBatch(off) ==
    IF off + MaxResults < Len(liked_videos) THEN "resolve" ELSE "filter"

ResolveRequest ==
    /\ pc = "resolve"
    /\ pc' = "resolve_wait"
    /\ lookup_requests' =
           Append(lookup_requests, Batch(VideoIds(liked_videos), i))
    /\ UNCHANGED <<remote, catalog, args, resumed, prev, liked_videos,
                   next_page_token, fetch_requests, video_durations, i,
                   lookup_responses, selected, videos_to_unlike, pos,
                   unliked_count, delete_calls, errors, next_index>>

\* The details arrive: store minutes under each returned id.
ResolveOk ==
    /\ pc = "resolve_wait"
    /\ LET resp == VideosResponse(Batch(VideoIds(liked_videos), i))
       IN /\ video_durations' = Update(video_durations, resp)
          /\ lookup_responses' = Append(lookup_responses, resp)
    /\ i' = i + MaxResults
    /\ pc' = AfterBatch(i)
    /\ UNCHANGED <<remote, catalog, args, resumed, prev, liked_videos,
                   next_page_token, fetch_requests, lookup_requests,
                   selected, videos_to_unlike, pos, unliked_count,
                   delete_calls, errors, next_index>>

\* Quota error: break, return the durations gathered so far.
ResolveQuotaErrorNext(off) == "filter"

ResolveQuotaError ==
    /\ pc = "resolve_wait"
    /\ errors' = errors \cup {<<"resolve", "quota">>}
    /\ pc' = ResolveQuotaErrorNext(i)
    /\ UNCHANGED <<remote, catalog, args, resumed, prev, liked_videos,
                   next_page_token, fetch_requests, video_durations, i,
                   lookup_requests, lookup_responses, selected,
                   videos_to_unlike, pos, unliked_count, delete_calls,
                   next_index>>

\* Any other error: the batch is lost, the for loop goes on to the next one.
ResolveOtherError ==
    /\ pc = "resolve_wait"
    /\ errors' = errors \cup {<<"resolve", "other">>}
    /\ i' = i + MaxResults
    /\ pc' = AfterBatch(i)
    /\ UNCHANGED <<remote, catalog, args, resumed, prev, liked_videos,
                   next_page_token, fetch_requests, video_durations,
                   lookup_requests, lookup_responses, selected,
                   videos_to_unlike, pos, unliked_count, delete_calls,
                   next_index>>

(***************************************************************************)
(* main(): the filter, the start-index slice and the dry-run switch        *)
(* (lines 196-232).                                                        *)
(***************************************************************************)
\* A filter that compares with <= instead of <.
IsShortOrEqual(duration, min_duration) == ~RatLess(min_duration, duration)

\* line 205: duration < args.min_duration
IsShort(duration, min_duration) == RatLess(duration, min_duration)

\* line 204: video['duration_minutes'] = duration
WithDuration(video, duration) ==
    [id |-> video.id, playlist_item_id |-> video.playlist_item_id,
     duration_minutes |-> duration]

\* A filter that takes a missing duration for zero minutes.
RECURSIVE FilterShortNoneAsZero(_, _, _)
FilterShortNoneAsZero(lv, durations, min_duration) ==
    IF lv = <<>> THEN <<>>
    ELSE LET video == Head(lv)
             rest == FilterShortNoneAsZero(Tail(lv), durations, min_duration)
             duration == IF video.id \in DOMAIN durations
                         THEN durations[video.id]
                         ELSE [num |-> 0, den |-> 1]
         IN IF IsShort(duration, min_duration)
            THEN <<WithDuration(video, duration)>> \o rest
            ELSE rest

\* lines 197-206: the loop over liked_videos building videos_to_unlike.
RECURSIVE FilterShort(_, _, _)
FilterShort(lv, durations, min_duration) ==
    IF lv = <<>> THEN <<>>
    ELSE LET video == Head(lv)
             rest == FilterShort(Tail(lv), durations, min_duration)
         IN IF video.id \notin DOMAIN durations
            THEN rest
            ELSE IF IsShort(durations[video.id], min_duration)
                 THEN <<WithDuration(video, durations[video.id])>> \o rest
                 ELSE rest

\* line 213: the run ends when the start index is past the selection.
StartIndexTooLarge(sel, start_index) ==
    start_index > 0 /\ start_index >= Len(sel)

\* lines 212-216: videos_to_unlike[args.start_index:]
ApplyStartIndex(sel, start_index) ==
    IF start_index > 0 /\ ~StartIndexTooLarge(sel, start_index)
    THEN PySliceFrom(sel, start_index)
    ELSE sel

\* A main() that forgets the dry-run switch.
CallsUnlikeIgnoringDryRun(vtu, dry_run) == vtu # <<>>

\* lines 227-232: unlike_videos is called on a non-empty list outside dry-run.
CallsUnlike(vtu, dry_run) == vtu # <<>> /\ ~dry_run

FilterVideos ==
    /\ pc = "filter"
    /\ selected' = FilterShort(liked_videos, video_durations, args.min_duration)
    /\ videos_to_unlike' = ApplyStartIndex(selected', args.start_index)
    /\ pc' = IF /\ ~StartIndexTooLarge(selected', args.start_index)
                /\ CallsUnlike(videos_to_unlike', args.dry_run)
             THEN "unlike"
             ELSE "done"
    /\ UNCHANGED <<remote, catalog, args, resumed, prev, liked_videos,
                   next_page_token, fetch_requests, video_durations, i,
                   lookup_requests, lookup_responses, pos, unliked_count,
                   delete_calls, errors, next_index>>

(***************************************************************************)
(* unlike_videos, called on videos_to_unlike[:args.batch_size]             *)
(***************************************************************************)
\* line 232: videos_to_unlike[:args.batch_size]
UnlikeList == PySliceTo(videos_to_unlike, args.batch_size)

\* A remover that addresses the video instead of the membership record.
DeleteByVideoId(video) == video.id

\* line 148: the id passed to playlistItems().delete
DeleteId(video) == video.playlist_item_id

\* lines 234-237: the resumption index main() prints after unlike_videos
\* returned count, or NoHint when it prints none.
NextIndex(count) ==
    IF count < Len(videos_to_unlike) THEN args.start_index + count ELSE NoHint

\* Where the for loop goes after taking entry number p.
AfterEntry(p) == IF p < Len(UnlikeList) THEN "unlike" ELSE "done"

DeleteRequest ==
    /\ pc = "unlike"
    /\ pos' = pos + 1
    /\ delete_calls' = Append(delete_calls, DeleteId(UnlikeList[pos + 1]))
    /\ pc' = "unlike_wait"
    /\ UNCHANGED <<remote, catalog, args, resumed, prev, liked_videos,
                   next_page_token, fetch_requests, video_durations, i,
                   lookup_requests, lookup_responses, selected,
                   videos_to_unlike, unliked_count, errors, next_index>>

\* The platform removed the membership record.
DeleteOk ==
    /\ pc = "unlike_wait"
    /\ \E n \in 1..Len(remote) :
           remote[n].playlist_item_id = delete_calls[Len(delete_calls)]
    /\ remote' = RemoteWithout(delete_calls[Len(delete_calls)])
    /\ unliked_count' = unliked_count + 1
    /\ pc' = AfterEntry(pos)
    /\ next_index' = IF pc' = "done" THEN NextIndex(unliked_count') ELSE NoHint
    /\ UNCHANGED <<catalog, args, resumed, prev, liked_videos,
                   next_page_token, fetch_requests, video_durations, i,
                   lookup_requests, lookup_responses, selected,
                   videos_to_unlike, pos, delete_calls, errors>>

\* A remover that goes on to the next entry after a quota error.
DeleteQuotaErrorContinues(p) == AfterEntry(p)

\* Quota error: break, return unliked_count.
DeleteQuotaErrorNext(p) == "done"

DeleteQuotaError ==
    /\ pc = "unlike_wait"
    /\ errors' = errors \cup {<<"unlike", "quota">>}
    /\ pc' = DeleteQuotaErrorNext(pos)
    /\ next_index' = IF pc' = "done" THEN NextIndex(unliked_count) ELSE NoHint
    /\ UNCHANGED <<remote, catalog, args, resumed, prev, liked_videos,
                   next_page_token, fetch_requests, video_durations, i,
                   lookup_requests, lookup_responses, selected,
                   videos_to_unlike, pos, unliked_count, delete_calls>>

\* Any other error: the entry stays liked, the loop goes on to the next one.
DeleteOtherError ==
    /\ pc = "unlike_wait"
    /\ errors' = errors \cup {<<"unlike", "other">>}
    /\ pc' = AfterEntry(pos)
    /\ next_index' = IF pc' = "done" THEN NextIndex(unliked_count) ELSE NoHint
    /\ UNCHANGED <<remote, catalog, args, resumed, prev, liked_videos,
                   next_page_token, fetch_requests, video_durations, i,
                   lookup_requests, lookup_responses, selected,
                   videos_to_unlike, pos, unliked_count, delete_calls>>

(***************************************************************************)
(* A second run, started with the command main() printed at line 237:      *)
(*   --min-duration {args.min_duration} --start-index {next_index}         *)
(* and every other option at its default.  It sees the liked collection    *)
(* as the first run left it.                                               *)
(***************************************************************************)
ResumeArgs ==
    [min_duration |-> args.min_duration, dry_run |-> FALSE,
     batch_size |-> DefaultBatchSize, start_index |-> next_index]

StartRun ==
    /\ pc = "done"
    /\ ~resumed
    /\ next_index # NoHint
    /\ resumed' = TRUE
    /\ prev' = [selected |-> selected, unliked_count |-> unliked_count,
                start_index |-> args.start_index, errors |-> errors,
                dry_run |-> args.dry_run]
    /\ args' = ResumeArgs
    /\ pc' = "channels"
    /\ liked_videos' = <<>>
    /\ next_page_token' = NoToken
    /\ fetch_requests' = 0
    /\ video_durations' = <<>>
    /\ i' = 0
    /\ lookup_requests' = <<>>
    /\ lookup_responses' = <<>>
    /\ selected' = <<>>
    /\ videos_to_unlike' = <<>>
    /\ pos' = 0
    /\ unliked_count' = 0
    /\ delete_calls' = <<>>
    /\ errors' = {}
    /\ next_index' = NoHint
    /\ UNCHANGED <<remote, catalog>>

Next ==
    \/ ChannelsOk
    \/ ChannelsError
    \/ FetchRequest
    \/ FetchOk
    \/ FetchQuotaError
    \/ FetchOtherError
    \/ ResolveRequest
    \/ ResolveOk
    \/ ResolveQuotaError
    \/ ResolveOtherError
    \/ FilterVideos
    \/ DeleteRequest
    \/ DeleteOk
    \/ DeleteQuotaError
    \/ DeleteOtherError
    \/ StartRun

Spec == Init /\ [][Next]_vars

\* The program is the only process and never waits on anything but the
\* platform's answer, which always comes: some step is always taken.
FairSpec == Spec /\ WF_vars(Next)

(***************************************************************************)
(* Vocabulary of the properties.                                           *)
(***************************************************************************)
\* ceil(n / d) for n >= 0, d > 0.
CeilDiv(n, d) == (n + d - 1) \div d

ItemsOf(seq) == [n \in 1..Len(seq) |-> seq[n].playlist_item_id]

IdsOf(seq) == [n \in 1..Len(seq) |-> seq[n].id]

NoDuplicates(seq) ==
    \A a, b \in 1..Len(seq) : a # b => seq[a] # seq[b]

RECURSIVE Flatten(_)
Flatten(seqs) == IF seqs = <<>> THEN <<>> ELSE Head(seqs) \o Flatten(Tail(seqs))

RECURSIVE UnionOfMappings(_)
UnionOfMappings(maps) ==
    IF maps = <<>> THEN <<>>
    ELSE Update(UnionOfMappings(SubSeq(maps, 1, Len(maps) - 1)), maps[Len(maps)])

StillLiked(item) == \E n \in 1..Len(remote) : remote[n].playlist_item_id = item

InFetch == pc \in {"fetch", "fetch_wait"}
InResolve == pc \in {"resolve", "resolve_wait"}
InUnlike == pc \in {"unlike", "unlike_wait"}

\* get_liked_videos has returned.
Fetched == InResolve \/ pc = "filter" \/ InUnlike \/ pc = "done"

\* get_video_durations has returned.
Resolved == pc = "filter" \/ InUnlike \/ (pc = "done" /\ liked_videos # <<>>)

\* The filter of main() has run.
Filtered == InUnlike \/ (pc = "done" /\ liked_videos # <<>>)

Failed(stage) == \E kind \in {"quota", "other"} : <<stage, kind>> \in errors

\* The entries of liked_videos with a resolved duration under the threshold.
ShortResolved ==
    SelectSeq(liked_videos,
              LAMBDA e : /\ e.id \in DOMAIN video_durations
                         /\ RatLess(video_durations[e.id], args.min_duration))

\* ShortResolved from the start index on.
ShortResolvedFromStart ==
    IF args.start_index > 0 /\ args.start_index < Len(ShortResolved)
    THEN SubSeq(ShortResolved, args.start_index + 1, Len(ShortResolved))
    ELSE ShortResolved

(***************************************************************************)
(* C1                                                                      *)
(***************************************************************************)
\* C1: a run that removed the first K of its P selected entries and stopped
\* on a quota error is followed by a run with the same threshold and
\* --start-index K; when no call of that second run fails, it issues delete
\* calls for exactly the remaining P-K entries, in their order.
ResumeProcessesRemaining ==
    ( /\ resumed
      /\ pc = "done"
      /\ errors = {}
      /\ prev.errors = {<<"unlike", "quota">>}
      /\ prev.start_index = 0
      /\ ~prev.dry_run
      /\ args.start_index = prev.unliked_count )
    => delete_calls =
           ItemsOf(SubSeq(prev.selected, prev.unliked_count + 1,
                          Len(prev.selected)))

(***************************************************************************)
(* C2                                                                      *)
(***************************************************************************)
\* C2: a dry run never issues a delete call, and what a run selects and
\* reports is fixed by the liked entries, their durations, the threshold
\* and the start index alone, so it is what a run without --dry-run selects.
DryRunDeletesNothing ==
    /\ args.dry_run =>
           /\ delete_calls = <<>>
           /\ unliked_count = 0
           /\ ~InUnlike
    /\ Filtered =>
           /\ ItemsOf(selected) = ItemsOf(ShortResolved)
           /\ ItemsOf(videos_to_unlike) = ItemsOf(ShortResolvedFromStart)

\* A finished dry run that reported two entries from a start index on.
DryRunWitness ==
    /\ args.dry_run
    /\ pc = "done"
    /\ args.start_index >= 1
    /\ Len(videos_to_unlike) >= 2

(***************************************************************************)
(* C3                                                                      *)
(***************************************************************************)
\* C3: a fetched entry with resolved duration D is selected iff D < T (an
\* entry with D = T is retained), it is selected once, and the selected
\* sequence keeps the order of the fetched sequence.
FilterSelectsStrictlyShorter ==
    Filtered =>
        /\ \A n \in 1..Len(liked_videos) :
              liked_videos[n].id \in DOMAIN video_durations =>
                  ( (\E m \in 1..Len(selected) :
                         /\ selected[m].id = liked_videos[n].id
                         /\ selected[m].playlist_item_id =
                                liked_videos[n].playlist_item_id)
                    <=> RatLess(video_durations[liked_videos[n].id],
                                args.min_duration) )
        /\ NoDuplicates(IdsOf(selected))
        /\ \A a, b \in 1..Len(selected) :
              a < b =>
                  \E x, y \in 1..Len(liked_videos) :
                      /\ x < y
                      /\ liked_videos[x].id = selected[a].id
                      /\ liked_videos[y].id = selected[b].id

\* The filter has seen a duration equal to the threshold, which it kept,
\* and selected two shorter entries.
FilterWitness ==
    /\ Filtered
    /\ Len(selected) >= 2
    /\ \E n \in 1..Len(liked_videos) :
          /\ liked_videos[n].id \in DOMAIN video_durations
          /\ video_durations[liked_videos[n].id].num * args.min_duration.den
                 = args.min_duration.num * video_durations[liked_videos[n].id].den
          /\ \A m \in 1..Len(selected) : selected[m].id # liked_videos[n].id

(***************************************************************************)
(* C4                                                                      *)
(***************************************************************************)
\* C4: an entry whose video id is absent from the resolver's output is never
\* selected and never the target of a delete call, and the run goes on: it
\* dies nowhere past the playlist lookup.
UnresolvedNeverSelected ==
    /\ \A m \in 1..Len(selected) : selected[m].id \in DOMAIN video_durations
    /\ \A m \in 1..Len(videos_to_unlike) :
          videos_to_unlike[m].id \in DOMAIN video_durations
    /\ \A c \in 1..Len(delete_calls) :
          \E n \in 1..Len(liked_videos) :
              /\ liked_videos[n].playlist_item_id = delete_calls[c]
              /\ liked_videos[n].id \in DOMAIN video_durations
    /\ pc = "crashed" => fetch_requests = 0

\* A finished run that removed an entry although one short video was left
\* out by the platform and another short one was in a batch that never
\* came back.
UnresolvedWitness ==
    /\ pc = "done"
    /\ unliked_count >= 1
    /\ \E n \in 1..Len(liked_videos) : liked_videos[n].id \notin DOMAIN catalog
    /\ \E n \in 1..Len(liked_videos) :
          /\ liked_videos[n].id \in DOMAIN catalog
          /\ liked_videos[n].id \notin DOMAIN video_durations
          /\ RatLess(DurationMinutes(catalog[liked_videos[n].id]),
                     args.min_duration)

(***************************************************************************)
(* C5                                                                      *)
(***************************************************************************)
Max(a, b) == IF a > b THEN a ELSE b

\* C5 (as stated): when no page request fails, get_liked_videos issues
\* exactly ceil(N/page size) requests for a collection of N records.
PaginationCeilRequests ==
    (Fetched /\ ~Failed("fetch")) =>
        fetch_requests = CeilDiv(Len(liked_videos), MaxResults)

\* C5 (amended): when no page request fails, get_liked_videos issues
\* max(1, ceil(N/page size)) requests (an empty collection still costs one),
\* and returns the records of the collection in page order, each once.
PaginationComplete ==
    (Fetched /\ ~Failed("fetch")) =>
        /\ fetch_requests = Max(1, CeilDiv(Len(liked_videos), MaxResults))
        /\ NoDuplicates(ItemsOf(liked_videos))
        /\ (InResolve \/ pc = "filter" \/ liked_videos = <<>>) =>
               liked_videos = remote

\* A collection of more than one page was fetched without an error.
PaginationWitness ==
    /\ InResolve
    /\ ~Failed("fetch")
    /\ Len(liked_videos) > MaxResults
    /\ fetch_requests >= 2

(***************************************************************************)
(* C6                                                                      *)
(***************************************************************************)
\* C6 (as stated): get_video_durations always issues ceil(M/batch size)
\* requests covering every id once.
BatchingAlwaysComplete ==
    Resolved =>
        /\ Len(lookup_requests) = CeilDiv(Len(liked_videos), MaxResults)
        /\ Flatten(lookup_requests) = IdsOf(liked_videos)

\* C6 (amended): every request holds at most batch-size ids, the requests
\* are consecutive slices of the id list, and the mapping built is the union
\* of the mappings answered; when no request fails with a quota error there
\* are exactly ceil(M/batch size) requests and every id is in exactly one.
BatchingWithoutQuotaError ==
    /\ \A r \in 1..Len(lookup_requests) :
          /\ Len(lookup_requests[r]) >= 1
          /\ Len(lookup_requests[r]) <= MaxResults
    /\ Flatten(lookup_requests) =
           SubSeq(IdsOf(liked_videos), 1, Len(Flatten(lookup_requests)))
    /\ video_durations = UnionOfMappings(lookup_responses)
    /\ (Resolved /\ <<"resolve", "quota">> \notin errors) =>
           /\ Len(lookup_requests) = CeilDiv(Len(liked_videos), MaxResults)
           /\ Flatten(lookup_requests) = IdsOf(liked_videos)

\* Two batches were requested, one was lost to an error that is no quota
\* error and the other brought durations.
BatchingWitness ==
    /\ pc = "filter"
    /\ Len(lookup_requests) >= 2
    /\ <<"resolve", "other">> \in errors
    /\ <<"resolve", "quota">> \notin errors
    /\ DOMAIN video_durations # {}

(***************************************************************************)
(* C7                                                                      *)
(***************************************************************************)
\* The entries of videos_to_unlike past index count are exactly the ones
\* still in the liked collection.
RestStillLiked(count) ==
    \A m \in 1..Len(videos_to_unlike) :
        StillLiked(videos_to_unlike[m].playlist_item_id) <=> m > count

RemoverOrdering ==
    /\ \A c \in 1..Len(delete_calls) :
          /\ c <= args.batch_size
          /\ args.start_index + c <= Len(selected)
          /\ delete_calls[c] = selected[args.start_index + c].playlist_item_id
          /\ delete_calls[c] # selected[args.start_index + c].id
    /\ NoDuplicates(delete_calls)
    /\ unliked_count =
           Cardinality({c \in 1..Len(delete_calls) : ~StillLiked(delete_calls[c])})

\* A finished run from start index 1 on that issued two delete calls, one
\* of which failed.
RemoverOrderingWitness ==
    /\ pc = "done"
    /\ ~args.dry_run
    /\ args.start_index >= 1
    /\ Len(delete_calls) >= 2
    /\ unliked_count = 1

(***************************************************************************)
(* C10                                                                     *)
(***************************************************************************)
\* C10: whatever the remote calls answer, a run reaches its final state.
RunTerminates == <>(pc \in {"done", "crashed"})

=============================================================================
